---------------------------- MODULE Spec2Model ----------------------------
(***************************************************************************)
(* A model of snh_bridge_util.py, the command-line client of the SNH       *)
(* Bridge API: one invocation of the tool (configure, upload, batch or      *)
(* query) from the dispatch in main() to the process's exit.                *)
(*                                                                          *)
(* The environment of an invocation is part of the state: the value of the  *)
(* SNH_BRIDGE_API_KEY variable, the config file ~/.snh_bridge/config.ini,    *)
(* the files named on the command line and the remote service.  A request   *)
(* blocks until the service answers, so issuing a request and receiving its *)
(* response (or its transport error) is one step.                           *)
(***************************************************************************)
EXTENDS Integers, Sequences, FiniteSets

(***************************************************************************)
(* Bounds of the model.                                                     *)
(***************************************************************************)
\* Largest number of discovered files of a batch whose files, credential
\* and service are otherwise unconstrained.
MaxFiles == 3
\* len(history) is counted up to MaxHops: the value MaxHops stands for
\* "MaxHops redirects or more" (the loop of upload_pdf has no cap).
MaxHops == 2

(***************************************************************************)
(* Program constants.                                                       *)
(***************************************************************************)
\* batch_upload asks for confirmation above this number of files.
ConfirmThreshold == 10

\* upload_pdf follows these status codes.
RedirectCodes == {301, 302, 303, 307, 308}

UPLOAD_URL == "https://vector-knowledge-base-RichBodo.replit.app/api/upload"
QUERY_URL == "https://vector-knowledge-base-RichBodo.replit.app/api/query"

(***************************************************************************)
(* Values.                                                                  *)
(***************************************************************************)
\* Python's None (os.getenv of an unset variable, get_api_key's NotFound).
None == "<None>"
\* A request without an Authorization header.
NoHeader == "<no header>"

Min(a, b) == IF a <= b THEN a ELSE b

\* The environment variable: unset, set to the empty string, or set to a key.
EnvValues == {None, "", "ENVKEY"}

\* ~/.snh_bridge/config.ini.  kind:
\*   missing    os.path.exists is false
\*   denied     the file exists and cannot be opened (ConfigParser.read skips it)
\*   malformed  the file cannot be parsed or decoded (ConfigParser.read raises)
\*   nosection  parsed, no [auth] section
\*   nokey      parsed, [auth] has no api_key
\*   badvalue   [auth] api_key holds a value with a lone '%' (reading it raises
\*              InterpolationSyntaxError)
\*   key        [auth] api_key = value
CfgFile(kind, value) == [kind |-> kind, value |-> value]
CfgFiles ==
    {CfgFile(k, "") : k \in {"missing", "denied", "malformed", "nosection", "nokey", "badvalue"}}
    \cup {CfgFile("key", v) : v \in {"", "CFGKEY"}}

\* The result of a call: a value, or an exception that propagates.
Returned(v) == [raised |-> FALSE, value |-> v]
Raised == [raised |-> TRUE, value |-> None]

\* A string is truthy when it is neither None nor empty.
Truthy(s) == s # None /\ s # ""

(***************************************************************************)
(* get_api_key (lines 15-32).                                               *)
(***************************************************************************)
\* config.read(config_file) followed by config['auth']['api_key'], with the
\* except (KeyError, ValueError) of lines 27-30 around the lookup only.
read_config(c) ==
    CASE c.kind = "denied" -> Returned(None)      \* nothing read: KeyError, pass
      [] c.kind = "malformed" -> Raised            \* line 26, outside the try
      [] c.kind = "nosection" -> Returned(None)    \* KeyError, pass
      [] c.kind = "nokey" -> Returned(None)        \* KeyError, pass
      [] c.kind = "badvalue" -> Raised             \* not a KeyError or ValueError
      [] OTHER -> Returned(c.value)

get_api_key(e, c) ==
    IF Truthy(e) THEN Returned(e)
    ELSE IF c.kind # "missing" THEN read_config(c)
    ELSE Returned(None)

(***************************************************************************)
(* get_headers (lines 58-78): the headers, or the exception raised.         *)
(***************************************************************************)
get_headers(e, c) ==
    LET k == get_api_key(e, c) IN
    IF k.raised THEN Raised
    ELSE IF ~Truthy(k.value) THEN Raised           \* ValueError, lines 61-66
    ELSE Returned("Bearer " \o k.value)

(***************************************************************************)
(* The remote service.                                                      *)
(***************************************************************************)
\* A response body as response.json() sees it: whether it parses, whether
\* the parsed value is an object, the keys it has, the truthiness of its
\* "success" value and whether its "metadata" value is an object.
Body(json, object, keys, success, meta) ==
    [json |-> json, object |-> object, keys |-> keys, success |-> success,
     metadata_object |-> meta]
NotJson == Body(FALSE, FALSE, {}, FALSE, FALSE)
JsonArray == Body(TRUE, FALSE, {}, FALSE, FALSE)
\* {"success": true, "document_id": .., "message": .., "metadata": {..}}
SuccessFull == Body(TRUE, TRUE, {"success", "document_id", "message", "metadata"}, TRUE, TRUE)
\* {"success": true, "document_id": .., "message": ..}
SuccessNoMetadata == Body(TRUE, TRUE, {"success", "document_id", "message"}, TRUE, FALSE)
\* {"success": true, "document_id": "X", "metadata": {..}}
SuccessNoMessage == Body(TRUE, TRUE, {"success", "document_id", "metadata"}, TRUE, TRUE)
\* {"success": true, "document_id": .., "message": .., "metadata": null}
SuccessNullMetadata == Body(TRUE, TRUE, {"success", "document_id", "message", "metadata"}, TRUE, FALSE)
\* {"success": false, "error": ..}
SuccessFalse == Body(TRUE, TRUE, {"success", "error"}, FALSE, FALSE)
\* {"error": "disk full"}
ErrorJson == Body(TRUE, TRUE, {"error"}, FALSE, FALSE)

Response(status, body, location) ==
    [status |-> status, body |-> body, location |-> location]
NoResponse == Response(0, NotJson, "")
\* A request that ends in a connection-level failure instead of a response.
TransportError == Response(-1, NotJson, "")

\* The Location header of a redirect: absent, an absolute URL, a relative one.
Locations == {"", "https://host/final", "/api/upload/"}
HasScheme(url) == url = "https://host/final"

FullResponses ==
    {Response(200, b, "") : b \in {NotJson, JsonArray, SuccessFull, SuccessNoMetadata,
                                   SuccessNoMessage, SuccessNullMetadata, SuccessFalse}}
    \cup {Response(500, b, "") : b \in {ErrorJson, NotJson}}
    \cup {Response(201, SuccessFull, ""), Response(304, NotJson, "")}
    \cup {Response(s, NotJson, l) : s \in RedirectCodes, l \in Locations}
PlainResponses == {Response(200, SuccessFull, ""), Response(500, ErrorJson, "")}

\* What the service may answer: anything ("full") or only a plain success
\* or a plain server error ("plain").
Responses(svc) == IF svc = "full" THEN FullResponses ELSE PlainResponses

\* What a request may end in.
Outcomes(svc) == Responses(svc) \cup (IF svc = "full" THEN {TransportError} ELSE {})

\* A request on the wire.
Request(method, url, auth) == [method |-> method, url |-> url, auth |-> auth]
NoRequest == Request("", "", NoHeader)

VARIABLES
    cmd,            \* args.command
    env,            \* os.getenv('SNH_BRIDGE_API_KEY')
    cfg,            \* ~/.snh_bridge/config.ini
    service,        \* what the remote service may answer
    target,         \* args.file / args.directory: "absent", "file" or "dir"
    pdf_files,      \* find_pdf_files(directory), in discovery order
    fcond,          \* each file when upload_pdf reaches it: "ok", "gone", "locked"
    pc,             \* where the process is
    exit_code,      \* the exit status, -1 while running
    asked,          \* batch_upload has prompted for confirmation
    confirm,        \* batch_upload's confirm (the lowered answer)
    i,              \* position of batch_upload's for loop in pdf_files
    success_count,  \* batch_upload's success_count
    failed_files,   \* batch_upload's failed_files
    batch_ret,      \* batch_upload's return value
    cur,            \* upload_pdf's file_path
    response,       \* upload_pdf's response
    hops,           \* len(history), counted up to MaxHops
    gets,           \* session.get calls of this upload_pdf call, up to MaxHops
    redirects,      \* redirect responses this upload_pdf call received, up to MaxHops
    ret,            \* upload_pdf's return value
    api_key,        \* what the last get_api_key call gave
    last_request,   \* the last request sent, NoRequest while none was
    calls,          \* the files upload_pdf was called on, in order
    posted,         \* the files POSTed to /api/upload, in order
    outcomes        \* upload_pdf's return values, in order

vars == <<cmd, env, cfg, service, target, pdf_files, fcond, pc, exit_code, asked,
          confirm, i, success_count, failed_files, batch_ret, cur, response, hops,
          gets, redirects, ret, api_key, last_request, calls, posted, outcomes>>

(***************************************************************************)
(* The invocations considered.                                              *)
(***************************************************************************)
FileConds == {"ok", "gone", "locked"}
\* The credential sources of the batch runs.
BatchCreds == {<<"ENVKEY", CfgFile("missing", "")>>, <<None, CfgFile("key", "CFGKEY")>>,
               <<None, CfgFile("missing", "")>>, <<"", CfgFile("malformed", "")>>}
\* File counts around the confirmation threshold.
LargeCounts == {ConfirmThreshold, ConfirmThreshold + 1}

\* find_pdf_files (lines 218-228) over a directory holding n PDF files: the
\* paths, numbered in os.walk's order.
find_pdf_files(n) == [k \in 1..n |-> k]

NotCalled == [raised |-> FALSE, value |-> "<not called>"]

Start ==
    /\ pc = "main" /\ exit_code = -1
    /\ asked = FALSE /\ confirm = "" /\ i = 0
    /\ success_count = 0 /\ failed_files = <<>> /\ batch_ret = <<>>
    /\ cur = 0 /\ response = NoResponse /\ hops = 0 /\ gets = 0 /\ redirects = 0 /\ ret = FALSE
    /\ api_key = NotCalled /\ last_request = NoRequest
    /\ calls = <<>> /\ posted = <<>> /\ outcomes = <<>>

InitConfigure ==
    /\ cmd = "configure" /\ env \in EnvValues /\ cfg \in CfgFiles
    /\ service = "full" /\ target = "absent" /\ pdf_files = <<>> /\ fcond = <<>>
    /\ Start

InitQuery ==
    /\ cmd = "query" /\ env \in EnvValues /\ cfg \in CfgFiles
    /\ service = "full" /\ target = "absent" /\ pdf_files = <<>> /\ fcond = <<>>
    /\ Start

InitUpload ==
    /\ cmd = "upload" /\ env \in EnvValues /\ cfg \in CfgFiles
    /\ service = "full" /\ pdf_files = <<>>
    /\ \/ target = "absent" /\ fcond = <<>>
       \/ target = "file" /\ fcond \in [1..1 -> FileConds]
    /\ Start

\* Batches of up to MaxFiles files with any file condition and any answer
\* of the service, and batches of ConfirmThreshold and ConfirmThreshold + 1
\* readable files against a service that answers each upload with a plain
\* success or a plain server error.
InitBatch ==
    /\ cmd = "batch"
    /\ \/ /\ \E c \in BatchCreds : env = c[1] /\ cfg = c[2]
          /\ service = "full"
          /\ \/ target \in {"absent", "file"} /\ pdf_files = <<>> /\ fcond = <<>>
             \/ /\ target = "dir"
                /\ \E n \in 0..MaxFiles :
                      pdf_files = find_pdf_files(n) /\ fcond \in [1..n -> FileConds]
       \/ /\ env \in {"ENVKEY", None} /\ cfg = CfgFile("missing", "")
          /\ service = "plain"
          /\ target = "dir"
          /\ \E n \in LargeCounts :
                pdf_files = find_pdf_files(n) /\ fcond = [k \in 1..n |-> "ok"]
    /\ Start

Init == InitConfigure \/ InitQuery \/ InitUpload \/ InitBatch

(***************************************************************************)
(* main (lines 314-334): the process ends.                                  *)
(***************************************************************************)
Exit(code) == pc' = "exited" /\ exit_code' = code

(***************************************************************************)
(* configure: setup_api_key (lines 34-56).                                  *)
(***************************************************************************)
MainConfigure ==
    /\ pc = "main" /\ cmd = "configure"
    /\ \E k \in {"", "NEWKEY"} :
          IF cfg.kind \in {"malformed", "denied"}
          THEN \* config.read raises (line 44), or open(.., 'w') does (line 52)
               cfg' = cfg /\ Exit(1)
          ELSE cfg' = CfgFile("key", k) /\ Exit(0)
    /\ UNCHANGED <<cmd, env, service, target, pdf_files, fcond, asked, confirm, i,
                   success_count, failed_files, batch_ret, cur, response, hops, gets, redirects,
                   ret, api_key, last_request, calls, posted, outcomes>>

(***************************************************************************)
(* query: query_documents (lines 178-216).  Every exception is caught and   *)
(* printed (line 215); main ignores the outcome.  requests.post follows     *)
(* redirects by itself here; only the POST the code issues is modelled.     *)
(***************************************************************************)
MainQuery ==
    /\ pc = "main" /\ cmd = "query"
    /\ api_key' = get_api_key(env, cfg)
    /\ LET headers == get_headers(env, cfg) IN
       IF headers.raised
       THEN last_request' = last_request
       ELSE last_request' = Request("POST", QUERY_URL, headers.value)
    /\ Exit(0)
    /\ UNCHANGED <<cmd, env, cfg, service, target, pdf_files, fcond, asked, confirm, i,
                   success_count, failed_files, batch_ret, cur, response, hops, gets, redirects,
                   ret, calls, posted, outcomes>>

(***************************************************************************)
(* upload: main's check (lines 317-321), then upload_pdf.                   *)
(***************************************************************************)
MainUpload ==
    /\ pc = "main" /\ cmd = "upload"
    /\ IF target = "absent"
       THEN Exit(1) /\ cur' = cur
       ELSE pc' = "call" /\ cur' = 1 /\ exit_code' = exit_code
    /\ UNCHANGED <<cmd, env, cfg, service, target, pdf_files, fcond, asked, confirm, i,
                   success_count, failed_files, batch_ret, response, hops, gets, redirects,
                   ret, api_key, last_request, calls, posted, outcomes>>

\* upload_pdf returns v.
UploadReturn(v) ==
    /\ ret' = v
    /\ outcomes' = Append(outcomes, v)
    /\ pc' = "returned"

\* Lines 135-163: the return value for a response that is not followed.
\* An exception other than json.JSONDecodeError leaves the inner try and is
\* caught at line 173.
upload_result(r) ==
    IF r.status = 200
    THEN IF ~r.body.json THEN FALSE                          \* lines 150-154
         ELSE IF ~r.body.object THEN FALSE                   \* result.get: AttributeError
         ELSE IF r.body.success
              THEN IF "document_id" \notin r.body.keys THEN FALSE  \* line 140: KeyError
                   ELSE IF "message" \notin r.body.keys THEN FALSE \* line 141: KeyError
                   ELSE IF "metadata" \in r.body.keys /\ ~r.body.metadata_object
                        THEN FALSE                           \* line 144: AttributeError
                   ELSE TRUE                                 \* line 155
              ELSE FALSE                                     \* lines 148-149
    ELSE FALSE                                               \* lines 157-163

\* The count n of redirect responses received, after response r arrived.
Received(n, r) == IF r.status \in RedirectCodes THEN Min(n + 1, MaxHops) ELSE n

\* Lines 82-118: from the call to the response to the POST.
UploadBegin ==
    /\ pc = "call"
    /\ calls' = Append(calls, cur)
    /\ hops' = 0 /\ gets' = 0
    /\ IF fcond[cur] # "ok"
       THEN \* the file is gone (lines 84-86) or open() raises (line 93)
            /\ UploadReturn(FALSE)
            /\ redirects' = 0
            /\ UNCHANGED <<response, api_key, last_request, posted>>
       ELSE /\ api_key' = get_api_key(env, cfg)
            /\ LET headers == get_headers(env, cfg) IN
               IF headers.raised
               THEN /\ UploadReturn(FALSE)
                    /\ redirects' = 0
                    /\ UNCHANGED <<response, last_request, posted>>
               ELSE /\ last_request' = Request("POST", UPLOAD_URL, headers.value)
                    /\ posted' = Append(posted, cur)
                    /\ \E r \in Outcomes(service) :
                          IF r = TransportError
                          THEN /\ UploadReturn(FALSE)
                               /\ response' = NoResponse /\ redirects' = 0
                          ELSE /\ response' = r /\ pc' = "response"
                               /\ redirects' = Received(0, r)
                               /\ UNCHANGED <<ret, outcomes>>
    /\ UNCHANGED <<cmd, env, cfg, service, target, pdf_files, fcond, exit_code, asked,
                   confirm, i, success_count, failed_files, batch_ret, cur>>

\* Lines 122-126: one turn of the redirect loop.
FollowRedirect ==
    /\ pc = "response" /\ response.status \in RedirectCodes
    /\ LET redirect_url == response.location IN
       IF redirect_url = ""
       THEN \* response.headers['Location']: KeyError, caught at line 173
            /\ UploadReturn(FALSE)
            /\ UNCHANGED <<response, hops, gets, redirects, last_request>>
       ELSE /\ hops' = Min(hops + 1, MaxHops)
            /\ IF ~HasScheme(redirect_url)
               THEN \* session.get raises MissingSchema before sending
                    /\ UploadReturn(FALSE)
                    /\ UNCHANGED <<response, gets, redirects, last_request>>
               ELSE /\ last_request' = Request("GET", redirect_url, NoHeader)
                    /\ gets' = Min(gets + 1, MaxHops)
                    /\ \E r \in Outcomes(service) :
                          IF r = TransportError
                          THEN /\ UploadReturn(FALSE)
                               /\ UNCHANGED <<response, redirects>>
                          ELSE /\ response' = r
                               /\ redirects' = Received(redirects, r)
                               /\ UNCHANGED <<pc, ret, outcomes>>
    /\ UNCHANGED <<cmd, env, cfg, service, target, pdf_files, fcond, exit_code, asked,
                   confirm, i, success_count, failed_files, batch_ret, cur, api_key,
                   calls, posted>>

\* Lines 128-163: the loop is left and the response decides.
Classify ==
    /\ pc = "response" /\ response.status \notin RedirectCodes
    /\ UploadReturn(upload_result(response))
    /\ UNCHANGED <<cmd, env, cfg, service, target, pdf_files, fcond, exit_code, asked,
                   confirm, i, success_count, failed_files, batch_ret, cur, response,
                   hops, gets, redirects, api_key, last_request, calls, posted>>

\* main ignores upload_pdf's return value (line 321).
UploadExit ==
    /\ pc = "returned" /\ cmd = "upload"
    /\ Exit(0)
    /\ UNCHANGED <<cmd, env, cfg, service, target, pdf_files, fcond, asked, confirm, i,
                   success_count, failed_files, batch_ret, cur, response, hops, gets, redirects,
                   ret, api_key, last_request, calls, posted, outcomes>>

NextUpload == MainUpload \/ UploadBegin \/ FollowRedirect \/ Classify \/ UploadExit

(***************************************************************************)
(* batch: main's check (lines 322-326), then batch_upload (lines 230-272).  *)
(* main ignores batch_upload's return value.                                *)
(***************************************************************************)
\* NeedsConfirm with the comparison off by one: the prompt already at the
\* threshold.
NeedsConfirmFrom(n) == n >= ConfirmThreshold

\* Line 247.
NeedsConfirm(n) == n > ConfirmThreshold

\* str.lower() on the answers considered.
Lower(s) == IF s = "Y" THEN "y" ELSE IF s = "YES" THEN "yes" ELSE s

\* What the user may type at the prompt.
Answers == {"y", "Y", "n", "yes", "YES", ""}

\* Lines 253-254, then the for loop.
StartLoop ==
    /\ success_count' = 0 /\ failed_files' = <<>>
    /\ i' = 1 /\ pc' = "loop"
    /\ UNCHANGED <<exit_code, batch_ret>>

\* batch_upload returns v and main ends.
BatchReturn(v) == batch_ret' = <<v>> /\ Exit(0)

\* Lines 322-326 and 232-247.
MainBatch ==
    /\ pc = "main" /\ cmd = "batch"
    /\ IF target = "absent"
       THEN Exit(1) /\ UNCHANGED <<asked, i, success_count, failed_files, batch_ret>>
       ELSE IF target # "dir" \/ pdf_files = <<>>
       THEN BatchReturn(FALSE) /\ UNCHANGED <<asked, i, success_count, failed_files>>
       ELSE IF NeedsConfirm(Len(pdf_files))
       THEN /\ asked' = TRUE /\ pc' = "confirm"
            /\ UNCHANGED <<exit_code, i, success_count, failed_files, batch_ret>>
       ELSE StartLoop /\ asked' = asked
    /\ UNCHANGED <<cmd, env, cfg, service, target, pdf_files, fcond, confirm, cur,
                   response, hops, gets, redirects, ret, api_key, last_request, calls, posted,
                   outcomes>>

\* Lines 248-251: the answer arrives, or input() raises EOFError, which
\* main does not catch.
Confirm ==
    /\ pc = "confirm"
    /\ \/ \E a \in Answers :
             /\ confirm' = Lower(a)
             /\ IF Lower(a) # "y"
                THEN BatchReturn(FALSE) /\ UNCHANGED <<i, success_count, failed_files>>
                ELSE StartLoop
       \/ /\ Exit(1)
          /\ UNCHANGED <<confirm, i, success_count, failed_files, batch_ret>>
    /\ UNCHANGED <<cmd, env, cfg, service, target, pdf_files, fcond, asked, cur,
                   response, hops, gets, redirects, ret, api_key, last_request, calls, posted,
                   outcomes>>

\* Lines 256-259: the loop takes the next file and calls upload_pdf.
BatchNext ==
    /\ pc = "loop" /\ i <= Len(pdf_files)
    /\ cur' = pdf_files[i]
    /\ pc' = "call"
    /\ UNCHANGED <<cmd, env, cfg, service, target, pdf_files, fcond, exit_code, asked,
                   confirm, i, success_count, failed_files, batch_ret, response, hops,
                   gets, redirects, ret, api_key, last_request, calls, posted, outcomes>>

\* BatchTally with success_count += 1 outside the if.
BatchTallyCountsEveryFile ==
    /\ pc = "returned" /\ cmd = "batch"
    /\ success_count' = success_count + 1
    /\ failed_files' = (IF ret THEN failed_files ELSE Append(failed_files, pdf_files[i]))
    /\ i' = i + 1
    /\ pc' = "loop"
    /\ response' = NoResponse /\ hops' = 0 /\ gets' = 0 /\ redirects' = 0
    /\ UNCHANGED <<cmd, env, cfg, service, target, pdf_files, fcond, exit_code, asked,
                   confirm, batch_ret, cur, ret, api_key, last_request, calls, posted,
                   outcomes>>

\* BatchTally with a break at the first failure.
BatchTallyFailFast ==
    /\ pc = "returned" /\ cmd = "batch"
    /\ IF ret
       THEN success_count' = success_count + 1 /\ failed_files' = failed_files
            /\ i' = i + 1
       ELSE failed_files' = Append(failed_files, pdf_files[i])
            /\ success_count' = success_count
            /\ i' = Len(pdf_files) + 1
    /\ pc' = "loop"
    /\ response' = NoResponse /\ hops' = 0 /\ gets' = 0 /\ redirects' = 0
    /\ UNCHANGED <<cmd, env, cfg, service, target, pdf_files, fcond, exit_code, asked,
                   confirm, batch_ret, cur, ret, api_key, last_request, calls, posted,
                   outcomes>>

\* Lines 259-262: upload_pdf has returned; the result is counted.
BatchTally ==
    /\ pc = "returned" /\ cmd = "batch"
    /\ IF ret
       THEN success_count' = success_count + 1 /\ failed_files' = failed_files
       ELSE failed_files' = Append(failed_files, pdf_files[i])
            /\ success_count' = success_count
    /\ i' = i + 1
    /\ pc' = "loop"
    /\ response' = NoResponse /\ hops' = 0 /\ gets' = 0 /\ redirects' = 0
    /\ UNCHANGED <<cmd, env, cfg, service, target, pdf_files, fcond, exit_code, asked,
                   confirm, batch_ret, cur, ret, api_key, last_request, calls, posted,
                   outcomes>>

\* BatchFinish returning success as soon as one file was uploaded.
BatchFinishAnySuccess ==
    /\ pc = "loop" /\ i > Len(pdf_files)
    /\ BatchReturn(success_count > 0)
    /\ UNCHANGED <<cmd, env, cfg, service, target, pdf_files, fcond, asked, confirm, i,
                   success_count, failed_files, cur, response, hops, gets, redirects, ret,
                   api_key, last_request, calls, posted, outcomes>>

\* Lines 264-272: the loop is over.
BatchFinish ==
    /\ pc = "loop" /\ i > Len(pdf_files)
    /\ BatchReturn(success_count = Len(pdf_files))
    /\ UNCHANGED <<cmd, env, cfg, service, target, pdf_files, fcond, asked, confirm, i,
                   success_count, failed_files, cur, response, hops, gets, redirects, ret,
                   api_key, last_request, calls, posted, outcomes>>

Next ==
    \/ MainConfigure
    \/ MainQuery
    \/ MainUpload
    \/ UploadBegin
    \/ FollowRedirect
    \/ Classify
    \/ UploadExit
    \/ MainBatch
    \/ Confirm
    \/ BatchNext
    \/ BatchTally
    \/ BatchFinish

Spec == Init /\ [][Next]_vars

\* The upload command alone.  Every step of it is a step of the one thread
\* of the process, and a request that was sent ends in a response or in a
\* transport error: a step that can be taken is taken.
SpecUpload == InitUpload /\ [][NextUpload]_vars /\ WF_vars(NextUpload)

(***************************************************************************)
(* Properties.                                                              *)
(***************************************************************************)
\* A credential can be resolved: the variable is set and non-empty, or the
\* config file has a non-empty [auth] api_key.
Resolvable == Truthy(env) \/ (cfg.kind = "key" /\ Truthy(cfg.value))

\* The request carries a non-empty credential in its Authorization header.
Authorized(req) == req.auth \notin {NoHeader, "", "Bearer "}

\* C1: every request sent by upload, batch or query (the POST to
\* /api/upload, the POST to /api/query, every GET of a followed redirect)
\* carries a non-empty credential in its Authorization header, and with no
\* resolvable credential no request is sent at all.
C1_EveryRequestAuthorized ==
    /\ last_request # NoRequest => Authorized(last_request)
    /\ ~Resolvable => last_request = NoRequest

\* C2: with no resolvable credential, upload, batch and query end with a
\* non-zero exit status and without any request sent.
C2_NoCredentialExitsNonZero ==
    (pc = "exited" /\ cmd \in {"upload", "batch", "query"} /\ ~Resolvable)
        => (exit_code # 0 /\ last_request = NoRequest)

\* C3: upload_pdf returns success if and only if the final response has
\* status 200 and a JSON body with a truthy success indicator; every other
\* response, and every transport error, gives failure.
C3_SuccessIffOkAndTruthy ==
    pc = "returned" =>
        (ret <=> (response.status = 200 /\ response.body.json /\ response.body.success))

\* The batch loop has run over every discovered file and batch_upload has
\* returned.
BatchEnded == cmd = "batch" /\ pc = "exited" /\ i > Len(pdf_files)

\* The relative paths of the first k files whose upload returned failure,
\* in discovery order.
RECURSIVE FailedAmong(_)
FailedAmong(k) ==
    IF k = 0 THEN <<>>
    ELSE IF outcomes[k] THEN FailedAmong(k - 1)
    ELSE Append(FailedAmong(k - 1), pdf_files[k])

NoDuplicates(seq) == \A a, b \in 1..Len(seq) : seq[a] = seq[b] => a = b

\* C4: at the end of a batch run over N files that proceeded to upload,
\* with S the files whose upload failed, success_count = N - |S| and the
\* failed list is exactly the relative paths of S in discovery order,
\* without duplicates or omissions.
C4_TallyMatchesOutcomes ==
    BatchEnded =>
        LET N == Len(pdf_files)
            S == {k \in 1..N : ~outcomes[k]}
        IN /\ Len(outcomes) = N
           /\ success_count = N - Cardinality(S)
           /\ failed_files = FailedAmong(N)
           /\ NoDuplicates(failed_files)
           /\ success_count + Len(failed_files) = N

C4_Witness ==
    /\ BatchEnded
    /\ Len(pdf_files) = 11
    /\ failed_files = <<3, 7>>
    /\ success_count = 9

\* C5: batch_upload prompts exactly when more than 10 files were
\* discovered; while the prompt is open and after any answer other than
\* y/Y nothing was uploaded (no upload_pdf call, no request, success_count 0)
\* and the run ends with failure; an upload starts only without a prompt or
\* after the answer y/Y.
C5_ConfirmationGate ==
    cmd = "batch" =>
        /\ pc # "main" => (asked <=> Len(pdf_files) > 10)
        /\ (asked /\ confirm # "y") =>
              /\ calls = <<>> /\ posted = <<>> /\ last_request = NoRequest
              /\ success_count = 0
              /\ pc \in {"confirm", "exited"}
              /\ pc = "exited" => batch_ret \in {<<>>, <<FALSE>>}
              /\ (pc = "exited" /\ exit_code = 0) => batch_ret = <<FALSE>>
        /\ calls # <<>> => (~asked \/ confirm = "y")

C5_Witness ==
    /\ cmd = "batch" /\ pc = "exited"
    /\ asked /\ confirm = "yes"
    /\ batch_ret = <<FALSE>> /\ calls = <<>>

\* C6: every redirect response (301, 302, 303, 307, 308) to the upload is
\* followed by one GET before upload_pdf gives its outcome: when upload_pdf
\* returns, the number of GETs it issued equals the number of redirect
\* responses it received.
C6_OneGetPerRedirect ==
    pc = "returned" => gets = redirects

\* C7: get_api_key returns the environment value when it is set and
\* non-empty; otherwise the config file's [auth] api_key when that entry
\* exists; otherwise (file, section or key missing or unreadable) None.
C7_CredentialResolution ==
    api_key # NotCalled =>
        /\ Truthy(env) => api_key = Returned(env)
        /\ (~Truthy(env) /\ cfg.kind = "key") => api_key = Returned(cfg.value)
        /\ (~Truthy(env) /\ cfg.kind # "key") => api_key = Returned(None)

\* C8 as stated: for a valid directory and every N >= 0, batch_upload
\* returns (success_count = N).
C8_PassIffAllSucceeded ==
    (batch_ret # <<>> /\ target = "dir")
        => batch_ret[1] = (success_count = Len(pdf_files))

\* C8, amended: for a valid directory with N >= 1 discovered files,
\* batch_upload returns (success_count = N), which is true exactly when
\* every file was attempted and every upload succeeded; with N = 0 it
\* returns False.
C8_PassIffAllSucceededNonEmpty ==
    (batch_ret # <<>> /\ target = "dir") =>
        LET N == Len(pdf_files) IN
        /\ N >= 1 =>
              /\ batch_ret[1] = (success_count = N)
              /\ batch_ret[1] <=> (Len(outcomes) = N /\ \A k \in 1..N : outcomes[k])
        /\ N = 0 => batch_ret[1] = FALSE

C8_Witness ==
    /\ BatchEnded /\ Len(pdf_files) = 2
    /\ batch_ret = <<TRUE>> /\ outcomes = <<TRUE, TRUE>>

\* The first k discovered files that upload_pdf POSTs: those that can be
\* opened, when a credential can be resolved.
RECURSIVE PostableAmong(_)
PostableAmong(k) ==
    IF k = 0 THEN <<>>
    ELSE IF fcond[pdf_files[k]] = "ok" /\ Resolvable
         THEN Append(PostableAmong(k - 1), pdf_files[k])
    ELSE PostableAmong(k - 1)

\* C9: in a batch run that proceeds to upload, upload_pdf is called on the
\* discovered files in discovery order, each once and one at a time; a
\* failure stops nothing and nothing is retried, so at the end every file
\* was attempted and exactly one POST was sent for every file that could be
\* opened (given a credential): N POSTs when all N can.
C9_EachFileOnceInOrder ==
    cmd = "batch" =>
        /\ Len(calls) <= Len(pdf_files)
        /\ calls = SubSeq(pdf_files, 1, Len(calls))
        /\ Len(outcomes) = (IF pc = "response" THEN Len(calls) - 1 ELSE Len(calls))
        /\ pc = "call" => (Len(calls) = i - 1 /\ cur = pdf_files[i])
        /\ pc = "loop" => Len(calls) = i - 1
        /\ posted = PostableAmong(Len(calls))
        /\ BatchEnded => (calls = pdf_files /\ Len(outcomes) = Len(pdf_files))

C9_Witness ==
    /\ BatchEnded
    /\ Len(pdf_files) = 11
    /\ ~outcomes[1] /\ ~outcomes[2]
    /\ Len(posted) = 11

\* C10: every call of upload_pdf returns, whatever the service answers.
C10_UploadReturns == (pc = "call") ~> (pc = "returned")

=============================================================================
